---- MODULE Spec2Model ----
(***************************************************************************)
(* Model of the synchronization-related intermediate instructions of VC4C  *)
(* (SemaphoreAdjustment, MemoryBarrier, LifetimeBoundary): construction,   *)
(* rendering (to_string), lowering (convertToAsm), the encodability query  *)
(* (mapsToASMInstruction) and structural copy (copyFor).                   *)
(*                                                                         *)
(* Every method is an operator from the receiver and the arguments to a    *)
(* record [ret |-> outcome, self |-> receiver after the call].  An outcome  *)
(* is a returned value or a thrown CompilationError.                       *)
(*                                                                         *)
(* Model of the profiler of VC4C in a MULTI_THREADED build: the global     *)
(* tables times and counters, their mutexes, the thread-local result cache  *)
(* and the threads that call the functions of the profiler.                *)
(***************************************************************************)
EXTENDS Integers, Sequences, FiniteSets, TLC

VARIABLES
    nodes,      \* the heap of instruction nodes: id -> node record or NoNode
    life,       \* id -> lifecycle state of the node in its instruction sequence
    origin,     \* id -> how the node came to be (constructed, or copied from where)
    locals,     \* the symbol tables of the methods: set of Local records
    emitted,    \* the machine instructions the lowering driver has produced
    result,     \* the last operation: its name, receiver, inputs and outcome
    times,        \* profiler: the global table of the entries, key -> Entry
    counters,     \* profiler: the global table of the counters, index -> Counter
    lockTimes,    \* profiler: the thread that holds the mutex of times, or NoThread
    lockCounters, \* profiler: the thread that holds the mutex of counters, or NoThread
    threadCache,  \* profiler: thread -> its ThreadResultCache, or NoCache
    thread,       \* profiler: thread -> where it is in the function it executes
    recorded      \* profiler: the number of records created so far and the
                  \* amounts the calls of endFunctionCall and increaseCounter
                  \* were given so far, summed by key (history)

nodeVars == <<nodes, life, origin, locals, emitted, result>>
profilerVars == <<times, counters, lockTimes, lockCounters, threadCache, thread, recorded>>
vars == <<nodes, life, origin, locals, emitted, result,
          times, counters, lockTimes, lockCounters, threadCache, thread, recorded>>

----------------------------------------------------------------------------
(* Bounds of the model *)

MaxNodes == 3
MaxScopeValue == 6
MaxIndex == 1
MaxThreads == 2
MaxKeys == 1
MaxCalls == 2

----------------------------------------------------------------------------
(* Text *)

Digit(d) ==
    CASE d = 0 -> "0" [] d = 1 -> "1" [] d = 2 -> "2" [] d = 3 -> "3"
      [] d = 4 -> "4" [] d = 5 -> "5" [] d = 6 -> "6" [] d = 7 -> "7"
      [] d = 8 -> "8" [] d = 9 -> "9"

RECURSIVE std_to_string(_)
std_to_string(n) ==
    IF n < 10 THEN Digit(n) ELSE std_to_string(n \div 10) \o Digit(n % 10)

\* vc4c::to_string<std::string>(values, separator): the values with the separator
\* between each two of them, the empty text for no values
RECURSIVE JoinRest(_, _)
JoinRest(values, separator) ==
    IF values = <<>> THEN ""
    ELSE separator \o Head(values) \o JoinRest(Tail(values), separator)

vc4c_to_string(values, separator) ==
    IF values = <<>> THEN "" ELSE Head(values) \o JoinRest(Tail(values), separator)

----------------------------------------------------------------------------
(* Outcomes of a call *)

Returned(kind, v) == [kind |-> kind, value |-> v]

CompilationError(step, message, text) ==
    [kind |-> "error", step |-> step, message |-> message, text |-> text]

IsError(o) == o.kind = "error"

----------------------------------------------------------------------------
(* Enumerations and operands *)

NumSemaphores == 16
Semaphores == 0 .. (NumSemaphores - 1)

COND_ALWAYS == "COND_ALWAYS"
ConditionCodes ==
    {"COND_NEVER", "COND_ALWAYS", "COND_ZERO_SET", "COND_ZERO_CLEAR",
     "COND_NEGATIVE_SET", "COND_NEGATIVE_CLEAR", "COND_CARRY_SET", "COND_CARRY_CLEAR"}

SetFlags == {"DONT_SET", "SET_FLAGS"}

CROSS_DEVICE == 0
DEVICE == 1
WORK_GROUP == 2
SUB_GROUP == 3
INVOCATION == 4
MemoryScopes == {CROSS_DEVICE, DEVICE, WORK_GROUP, SUB_GROUP, INVOCATION}

MemorySemanticsFlags ==
    {"ACQUIRE", "RELEASE", "ACQUIRE_RELEASE", "SEQUENTIALLY_CONSISTENT",
     "SUBGROUP_MEMORY", "WORK_GROUP_MEMORY", "CROSS_WORK_GROUP_MEMORY",
     "ATOMIC_COUNTER_MEMORY", "IMAGE_MEMORY"}

has_flag(semantics, flag) == flag \in semantics

NoLocal == [method |-> "", name |-> "", localKind |-> "none"]
NO_VALUE == [valueType |-> "UNDEFINED", local |-> NoLocal, literal |-> ""]
LocalValue(l) == [valueType |-> "LOCAL", local |-> l, literal |-> ""]
LiteralValue(t) == [valueType |-> "LITERAL", local |-> NoLocal, literal |-> t]
Local(m, n, k) == [method |-> m, name |-> n, localKind |-> k]

hasType(value, type) == value.valueType = type
isStackAllocation(local) == local.localKind = "StackAllocation"

Value_to_string(value) ==
    IF hasType(value, "LOCAL") THEN "%" \o value.local.name ELSE value.literal

PACK_NOP == "PACK_NOP"
DONT_SWAP == "DONT_SWAP"
REG_NOP == [file |-> "ANY", num |-> 39]

----------------------------------------------------------------------------
(* IntermediateInstruction: the base of every node *)

NoNode == [kind |-> "none"]

IntermediateInstruction(output, cond, setFlags) ==
    [output |-> output, conditional |-> cond, setFlags |-> setFlags,
     arguments |-> <<>>, decorations |-> <<>>]

setArgument(self, index, arg) ==
    IF index < Len(self.arguments)
    THEN [self EXCEPT !.arguments[index + 1] = arg]
    ELSE [self EXCEPT !.arguments = Append(@, arg)]

getArgument(self, index) == self.arguments[index + 1]

createAdditionalInfoString(self) ==
    IF self.decorations = <<>> THEN ""
    ELSE " (" \o vc4c_to_string(self.decorations, " ") \o ")"

copyExtrasFrom(self, src) ==
    [self EXCEPT !.decorations = src.decorations,
                 !.conditional = IF src.conditional # COND_ALWAYS
                                 THEN src.conditional ELSE @,
                 !.setFlags = IF @ = "DONT_SET" THEN src.setFlags ELSE @]

IntermediateInstruction_mapsToASMInstruction(self) ==
    [ret |-> Returned("bool", TRUE), self |-> self]

\* renameValue(method, orig, prefix): the local named prefix + name of the
\* destination method, found in its symbol table or created there with the kind
\* of the original; a value that is no local is returned as it is
renameValue(table, method, orig, prefix) ==
    IF ~hasType(orig, "LOCAL") THEN [value |-> orig, locals |-> table]
    ELSE LET name == prefix \o orig.local.name
             found == {l \in table : l.method = method /\ l.name = name}
             made == Local(method, name, orig.local.localKind)
         IN  IF found # {}
             THEN [value |-> LocalValue(CHOOSE l \in found : TRUE), locals |-> table]
             ELSE [value |-> LocalValue(made), locals |-> table \cup {made}]

----------------------------------------------------------------------------
(* qpu_asm::SemaphoreInstruction *)

SemaphoreInstruction(pack, condExecute, condFlags, setFlags, writeSwap, addOut, mulOut, increment, semaphore) ==
    [pack |-> pack, condExecute |-> condExecute, condFlags |-> condFlags,
     setFlags |-> setFlags, writeSwap |-> writeSwap, addOut |-> addOut,
     mulOut |-> mulOut, increment |-> increment, semaphore |-> semaphore]

----------------------------------------------------------------------------
(* SemaphoreAdjustment *)

SemaphoreAdjustment(semaphore, increase, cond, setFlags) ==
    [kind |-> "SemaphoreAdjustment", semaphore |-> semaphore, increase |-> increase]
        @@ IntermediateInstruction(NO_VALUE, cond, setFlags)

\* the constructor called without a condition and a flag-write mode
SemaphoreAdjustment_default(semaphore, increase) ==
    SemaphoreAdjustment(semaphore, increase, COND_ALWAYS, "DONT_SET")

SemaphoreAdjustment_to_string(self) ==
    [ret |-> Returned("text",
                 "semaphore " \o (std_to_string(self.semaphore) \o " ")
                     \o (IF self.increase THEN "increase" ELSE "decrease")
                     \o createAdditionalInfoString(self)),
     self |-> self]

\* the direction flag inverted
SemaphoreAdjustment_convertToAsm_direction(self, registerMapping, labelMapping, instructionIndex) ==
    [ret |-> Returned("instruction",
                 SemaphoreInstruction(PACK_NOP, self.conditional, self.conditional,
                     self.setFlags, DONT_SWAP, REG_NOP.num, REG_NOP.num,
                     ~self.increase, self.semaphore)),
     self |-> self]

\* the position in the sequence written as the register of the first output
SemaphoreAdjustment_convertToAsm_index(self, registerMapping, labelMapping, instructionIndex) ==
    [ret |-> Returned("instruction",
                 SemaphoreInstruction(PACK_NOP, self.conditional, self.conditional,
                     self.setFlags, DONT_SWAP, instructionIndex, REG_NOP.num,
                     self.increase, self.semaphore)),
     self |-> self]

\* the flag-write mode used up by the lowering
SemaphoreAdjustment_convertToAsm_consuming(self, registerMapping, labelMapping, instructionIndex) ==
    [ret |-> Returned("instruction",
                 SemaphoreInstruction(PACK_NOP, self.conditional, self.conditional,
                     self.setFlags, DONT_SWAP, REG_NOP.num, REG_NOP.num,
                     self.increase, self.semaphore)),
     self |-> [self EXCEPT !.setFlags = "DONT_SET"]]

SemaphoreAdjustment_convertToAsm(self, registerMapping, labelMapping, instructionIndex) ==
    [ret |-> Returned("instruction",
                 SemaphoreInstruction(PACK_NOP, self.conditional, self.conditional,
                     self.setFlags, DONT_SWAP, REG_NOP.num, REG_NOP.num,
                     self.increase, self.semaphore)),
     self |-> self]

\* the copy made without the extras of the original
SemaphoreAdjustment_copyFor_noExtras(self, table, method, localPrefix) ==
    [ret |-> Returned("node",
                 SemaphoreAdjustment(self.semaphore, self.increase,
                                     self.conditional, self.setFlags)),
     self |-> self, locals |-> table]

SemaphoreAdjustment_copyFor(self, table, method, localPrefix) ==
    [ret |-> Returned("node",
                 copyExtrasFrom(
                     SemaphoreAdjustment(self.semaphore, self.increase,
                                         self.conditional, self.setFlags), self)),
     self |-> self, locals |-> table]

----------------------------------------------------------------------------
(* MemoryBarrier *)

MemoryBarrier(scope, semantics) ==
    [kind |-> "MemoryBarrier", scope |-> scope, semantics |-> semantics]
        @@ IntermediateInstruction(NO_VALUE, COND_ALWAYS, "DONT_SET")

\* a default text in place of the throw after the switch
toString_MemoryScope_default(scope) ==
    CASE scope = CROSS_DEVICE -> Returned("text", "global")
      [] scope = DEVICE -> Returned("text", "device")
      [] scope = SUB_GROUP -> Returned("text", "sub-group")
      [] scope = WORK_GROUP -> Returned("text", "work-group")
      [] scope = INVOCATION -> Returned("text", "invocation")
      [] OTHER -> Returned("text", "unknown")

toString_MemoryScope(scope) ==
    CASE scope = CROSS_DEVICE -> Returned("text", "global")
      [] scope = DEVICE -> Returned("text", "device")
      [] scope = SUB_GROUP -> Returned("text", "sub-group")
      [] scope = WORK_GROUP -> Returned("text", "work-group")
      [] scope = INVOCATION -> Returned("text", "invocation")
      [] OTHER -> CompilationError("GENERAL", "Unsupported memory scope value",
                                   std_to_string(scope))

\* acquire-release taken for acquire alone
toString_MemorySemantics_acquireOnly(semantics) ==
    LET r1 == IF has_flag(semantics, "ACQUIRE") \/ has_flag(semantics, "ACQUIRE_RELEASE")
              THEN <<"acquire">> ELSE <<>>
        r2 == IF has_flag(semantics, "RELEASE")
              THEN Append(r1, "release") ELSE r1
        r3 == IF has_flag(semantics, "SEQUENTIALLY_CONSISTENT")
              THEN Append(r2, "sequentially consistent") ELSE r2
        r4 == IF has_flag(semantics, "SUBGROUP_MEMORY")
              THEN Append(r3, "sub-group") ELSE r3
        r5 == IF has_flag(semantics, "WORK_GROUP_MEMORY")
              THEN Append(r4, "work-group") ELSE r4
        r6 == IF has_flag(semantics, "CROSS_WORK_GROUP_MEMORY")
              THEN Append(r5, "global") ELSE r5
        r7 == IF has_flag(semantics, "ATOMIC_COUNTER_MEMORY")
              THEN Append(r6, "atomic counter") ELSE r6
        result8 == IF has_flag(semantics, "IMAGE_MEMORY")
              THEN Append(r7, "image") ELSE r7
    IN  vc4c_to_string(result8, "|")

toString_MemorySemantics(semantics) ==
    LET r1 == IF has_flag(semantics, "ACQUIRE") \/ has_flag(semantics, "ACQUIRE_RELEASE")
              THEN <<"acquire">> ELSE <<>>
        r2 == IF has_flag(semantics, "RELEASE") \/ has_flag(semantics, "ACQUIRE_RELEASE")
              THEN Append(r1, "release") ELSE r1
        r3 == IF has_flag(semantics, "SEQUENTIALLY_CONSISTENT")
              THEN Append(r2, "sequentially consistent") ELSE r2
        r4 == IF has_flag(semantics, "SUBGROUP_MEMORY")
              THEN Append(r3, "sub-group") ELSE r3
        r5 == IF has_flag(semantics, "WORK_GROUP_MEMORY")
              THEN Append(r4, "work-group") ELSE r4
        r6 == IF has_flag(semantics, "CROSS_WORK_GROUP_MEMORY")
              THEN Append(r5, "global") ELSE r5
        r7 == IF has_flag(semantics, "ATOMIC_COUNTER_MEMORY")
              THEN Append(r6, "atomic counter") ELSE r6
        result8 == IF has_flag(semantics, "IMAGE_MEMORY")
              THEN Append(r7, "image") ELSE r7
    IN  vc4c_to_string(result8, "|")

MemoryBarrier_to_string(self) ==
    LET scopeText == toString_MemoryScope(self.scope)
    IN  [ret |-> IF IsError(scopeText) THEN scopeText
                 ELSE Returned("text",
                          "mem-fence " \o (scopeText.value \o ", ")
                              \o toString_MemorySemantics(self.semantics)
                              \o createAdditionalInfoString(self)),
         self |-> self]

\* the message of the life-time instructions copied into the memory barrier
MemoryBarrier_convertToAsm_message(self, registerMapping, labelMapping, instructionIndex) ==
    LET text == MemoryBarrier_to_string(self)
    IN  [ret |-> IF IsError(text.ret) THEN text.ret
                 ELSE CompilationError("CODE_GENERATION",
                          "There should be no more lifetime instructions at this point",
                          text.ret.value),
         self |-> text.self]

MemoryBarrier_convertToAsm(self, registerMapping, labelMapping, instructionIndex) ==
    LET text == MemoryBarrier_to_string(self)
    IN  [ret |-> IF IsError(text.ret) THEN text.ret
                 ELSE CompilationError("CODE_GENERATION",
                          "There should be no more memory barriers at this point",
                          text.ret.value),
         self |-> text.self]

MemoryBarrier_copyFor(self, table, method, localPrefix) ==
    [ret |-> Returned("node",
                 copyExtrasFrom(MemoryBarrier(self.scope, self.semantics), self)),
     self |-> self, locals |-> table]

\* the override left to answer as the base class does
MemoryBarrier_mapsToASMInstruction_base(self) ==
    [ret |-> Returned("bool", TRUE), self |-> self]

MemoryBarrier_mapsToASMInstruction(self) ==
    [ret |-> Returned("bool", FALSE), self |-> self]

----------------------------------------------------------------------------
(* LifetimeBoundary *)

\* the check that the local is a stack allocation left out
LifetimeBoundary_anyLocal(allocation, lifetimeEnd) ==
    LET base == [kind |-> "LifetimeBoundary", isLifetimeEnd |-> lifetimeEnd]
                    @@ IntermediateInstruction(NO_VALUE, COND_ALWAYS, "DONT_SET")
    IN  IF ~hasType(allocation, "LOCAL")
        THEN [ret |-> CompilationError("LLVM_2_IR",
                          "Cannot control life-time of object not located on stack",
                          Value_to_string(allocation)),
              self |-> base]
        ELSE [ret |-> Returned("constructed", TRUE),
              self |-> setArgument(base, 0, allocation)]

LifetimeBoundary(allocation, lifetimeEnd) ==
    LET base == [kind |-> "LifetimeBoundary", isLifetimeEnd |-> lifetimeEnd]
                    @@ IntermediateInstruction(NO_VALUE, COND_ALWAYS, "DONT_SET")
    IN  IF ~hasType(allocation, "LOCAL") \/ ~isStackAllocation(allocation.local)
        THEN [ret |-> CompilationError("LLVM_2_IR",
                          "Cannot control life-time of object not located on stack",
                          Value_to_string(allocation)),
              self |-> base]
        ELSE [ret |-> Returned("constructed", TRUE),
              self |-> setArgument(base, 0, allocation)]

\* the output of the instruction returned in place of its argument
LifetimeBoundary_getStackAllocation_output(self) ==
    [ret |-> Returned("value", self.output), self |-> self]

LifetimeBoundary_getStackAllocation(self) ==
    [ret |-> Returned("value", getArgument(self, 0)), self |-> self]

LifetimeBoundary_to_string(self) ==
    [ret |-> Returned("text",
                 "life-time for "
                     \o Value_to_string(LifetimeBoundary_getStackAllocation(self).ret.value)
                     \o (IF self.isLifetimeEnd THEN " ends" ELSE " starts")),
     self |-> self]

\* an empty instruction emitted for the life-time instruction
LifetimeBoundary_convertToAsm_encoded(self, registerMapping, labelMapping, instructionIndex) ==
    [ret |-> Returned("instruction",
                 SemaphoreInstruction(PACK_NOP, "COND_NEVER", "COND_NEVER", "DONT_SET",
                     DONT_SWAP, REG_NOP.num, REG_NOP.num, FALSE, 0)),
     self |-> self]

LifetimeBoundary_convertToAsm(self, registerMapping, labelMapping, instructionIndex) ==
    LET text == LifetimeBoundary_to_string(self)
    IN  [ret |-> CompilationError("CODE_GENERATION",
                     "There should be no more lifetime instructions at this point",
                     text.ret.value),
         self |-> text.self]

\* the copy made over the operand of the original, not renamed
LifetimeBoundary_copyFor_notRenamed(self, table, method, localPrefix) ==
    LET made == LifetimeBoundary(LifetimeBoundary_getStackAllocation(self).ret.value,
                                 self.isLifetimeEnd)
    IN  [ret |-> IF IsError(made.ret) THEN made.ret
                 ELSE Returned("node", copyExtrasFrom(made.self, self)),
         self |-> self, locals |-> table]

LifetimeBoundary_copyFor(self, table, method, localPrefix) ==
    LET renamed == renameValue(table, method,
                       LifetimeBoundary_getStackAllocation(self).ret.value, localPrefix)
        made == LifetimeBoundary(renamed.value, self.isLifetimeEnd)
    IN  [ret |-> IF IsError(made.ret) THEN made.ret
                 ELSE Returned("node", copyExtrasFrom(made.self, self)),
         self |-> self, locals |-> renamed.locals]

LifetimeBoundary_mapsToASMInstruction(self) ==
    [ret |-> Returned("bool", FALSE), self |-> self]

----------------------------------------------------------------------------
(* Virtual dispatch on the kind of the node *)

to_string(self) ==
    CASE self.kind = "SemaphoreAdjustment" -> SemaphoreAdjustment_to_string(self)
      [] self.kind = "MemoryBarrier" -> MemoryBarrier_to_string(self)
      [] self.kind = "LifetimeBoundary" -> LifetimeBoundary_to_string(self)

convertToAsm(self, registerMapping, labelMapping, instructionIndex) ==
    CASE self.kind = "SemaphoreAdjustment" ->
            SemaphoreAdjustment_convertToAsm(self, registerMapping, labelMapping,
                                             instructionIndex)
      [] self.kind = "MemoryBarrier" ->
            MemoryBarrier_convertToAsm(self, registerMapping, labelMapping,
                                       instructionIndex)
      [] self.kind = "LifetimeBoundary" ->
            LifetimeBoundary_convertToAsm(self, registerMapping, labelMapping,
                                          instructionIndex)

copyFor(self, table, method, localPrefix) ==
    CASE self.kind = "SemaphoreAdjustment" ->
            SemaphoreAdjustment_copyFor(self, table, method, localPrefix)
      [] self.kind = "MemoryBarrier" ->
            MemoryBarrier_copyFor(self, table, method, localPrefix)
      [] self.kind = "LifetimeBoundary" ->
            LifetimeBoundary_copyFor(self, table, method, localPrefix)

mapsToASMInstruction(self) ==
    CASE self.kind = "SemaphoreAdjustment" ->
            IntermediateInstruction_mapsToASMInstruction(self)
      [] self.kind = "MemoryBarrier" -> MemoryBarrier_mapsToASMInstruction(self)
      [] self.kind = "LifetimeBoundary" -> LifetimeBoundary_mapsToASMInstruction(self)

----------------------------------------------------------------------------
(* Inputs *)

Ids == 1 .. MaxNodes

InitialLocals ==
    {Local("f", "x", "StackAllocation"), Local("f", "y", "Parameter"),
     Local("g", "b.x", "Parameter")}

Operands == {LocalValue(l) : l \in InitialLocals} \cup {LiteralValue("7")}

\* the (destination method, prefix for the locals) pairs of the copies
CopyRules == {<<"g", "a.">>, <<"g", "b.">>, <<"f", "a.">>}
MaxNameLen == 3

DecorationTags == {"unsigned"}

RegisterMappings == {[l \in D |-> "ra0"] : D \in SUBSET {"x"}}
LabelMappings == {[l \in D |-> 0] : D \in SUBSET {"label"}}
Indices == 0 .. MaxIndex

\* the inputs of the single-node specification: the whole enumerations
AllScopes == 0 .. MaxScopeValue
AllSemantics == SUBSET MemorySemanticsFlags

\* the inputs of the instruction-sequence specification
SomeSemaphores == {3}
SomeConditions == {"COND_ZERO_SET"}
SomeScopes == {WORK_GROUP}
SomeSemantics == {{"ACQUIRE_RELEASE", "WORK_GROUP_MEMORY"}}

\* the semantics of the memory barriers that are copied
CopiedSemantics == {{}, {"ACQUIRE_RELEASE", "WORK_GROUP_MEMORY"}, MemorySemanticsFlags}

----------------------------------------------------------------------------
(* Profiler: the records, the tables and the thread-local cache *)

Threads == 1 .. MaxThreads
NoThread == 0

\* the hash keys of the entries and the indices of the counters
Keys == 1 .. MaxKeys
\* the duration a call of the thread is measured to take and the value the
\* thread increases a counter by: its number, which tells the threads apart in
\* a sum
Amounts(t) == {t}
Names == {"Optimizer"}
SIZE_MAX == -1
\* the counter a counter is compared with: none, or another counter
PrevIndices(index) == {SIZE_MAX} \cup (Keys \ {index})

\* a table is a function of the key; present tells whether the table holds the
\* key.  The file name and the line number of a record are set where its name
\* is set and are read nowhere but in the printed lines.
NoEntry == [present |-> FALSE, name |-> "", duration |-> 0, invocations |-> 0]
Entry == [present |-> TRUE, name |-> "", duration |-> 0, invocations |-> 0]

NoCounter ==
    [present |-> FALSE, name |-> "", count |-> 0, index |-> 0, invocations |-> 0,
     prevCounter |-> 0]
Counter ==
    [present |-> TRUE, name |-> "", count |-> 0, index |-> 0, invocations |-> 0,
     prevCounter |-> 0]

EmptyTimes == [key \in Keys |-> NoEntry]
EmptyCounters == [index \in Keys |-> NoCounter]

\* operator[] of a map: the table with a value-initialized record inserted for
\* the key when it holds none
subscript(table, key, fresh) ==
    IF table[key].present THEN table ELSE [table EXCEPT ![key] = fresh]

\* auto& entry = table[key]; entry.name = std::move(name); ...
createEntry_record(table, key, name) ==
    [subscript(table, key, Entry) EXCEPT ![key].name = name]

createCounter_record(table, index, name, prevIndex) ==
    [subscript(table, index, Counter) EXCEPT ![index].index = index,
                                             ![index].name = name,
                                             ![index].prevCounter = prevIndex]

endFunctionCall_record(entry, duration) ==
    [entry EXCEPT !.duration = @ + duration, !.invocations = @ + 1]

increaseCounter_record(counter, value) ==
    [counter EXCEPT !.count = @ + value, !.invocations = @ + 1]

\* the thread-local entry assigned to the global one
ThreadResultCache_flushEntry_assign(global, entry) ==
    entry

\* ~ThreadResultCache, the body of the loop over localTimes: the global record of
\* the key after one thread-local entry is written back
ThreadResultCache_flushEntry(global, entry) ==
    IF global.present
    THEN [global EXCEPT !.duration = @ + entry.duration,
                        !.invocations = @ + entry.invocations]
    ELSE entry

\* the invocations of the thread-local counter not written back
ThreadResultCache_flushCounter_countOnly(global, entry) ==
    IF global.present
    THEN [global EXCEPT !.count = @ + entry.count]
    ELSE entry

\* ~ThreadResultCache, the body of the loop over localCounters
ThreadResultCache_flushCounter(global, entry) ==
    IF global.present
    THEN [global EXCEPT !.count = @ + entry.count,
                        !.invocations = @ + entry.invocations]
    ELSE entry

NoCache == [active |-> FALSE, localTimes |-> EmptyTimes, localCounters |-> EmptyCounters]
ThreadResultCache ==
    [active |-> TRUE, localTimes |-> EmptyTimes, localCounters |-> EmptyCounters]

PresentKeys(table) == {key \in Keys : table[key].present}

\* a thread: the place it is at, the key and the table of the record it holds a
\* pointer to, and what becomes of threadCache after the destructor
IdleThread == [at |-> "idle", key |-> 0, table |-> "none", after |-> "none"]

\* the number of records created, and the sums of the amounts recorded
NoneRecorded ==
    [created |-> 0,
     times |-> [key \in Keys |-> [duration |-> 0, invocations |-> 0]],
     counters |-> [index \in Keys |-> [count |-> 0, invocations |-> 0]]]

----------------------------------------------------------------------------
(* State *)

NoOrigin ==
    [how |-> "none", inputs |-> <<>>, source |-> 0, method |-> "", prefix |-> ""]
Constructed(inputs) ==
    [how |-> "constructed", inputs |-> inputs, source |-> 0, method |-> "", prefix |-> ""]
CopyOf(n, method, prefix) ==
    [how |-> "copy", inputs |-> <<>>, source |-> n, method |-> method, prefix |-> prefix]

Call(op, n, inputs, out) == [op |-> op, node |-> n, inputs |-> inputs, out |-> out]

Init ==
    /\ nodes = [i \in Ids |-> NoNode]
    /\ life = [i \in Ids |-> "Absent"]
    /\ origin = [i \in Ids |-> NoOrigin]
    /\ locals = InitialLocals
    /\ emitted = {}
    /\ result = Call("none", 0, <<>>, Returned("none", TRUE))
    /\ times = EmptyTimes
    /\ counters = EmptyCounters
    /\ lockTimes = NoThread
    /\ lockCounters = NoThread
    /\ threadCache = [t \in Threads |-> NoCache]
    /\ thread = [t \in Threads |-> IdleThread]
    /\ recorded = NoneRecorded

Free(cap) == {i \in 1 .. cap : nodes[i] = NoNode}
HasFree(cap) == Free(cap) # {}
NextId(cap) == CHOOSE i \in Free(cap) : \A j \in Free(cap) : i <= j
Exists(n) == nodes[n] # NoNode

\* the instruction sequence is still worked on by the passes: the final
\* lowering has not started
InPasses == \A i \in Ids : life[i] \notin {"Lowered", "ReachedLowering"}

Store(id, node, org) ==
    /\ nodes' = [nodes EXCEPT ![id] = node]
    /\ life' = [life EXCEPT ![id] = "Created"]
    /\ origin' = [origin EXCEPT ![id] = org]

----------------------------------------------------------------------------
(* Construction *)

NewSemaphoreAdjustment(cap, sems, dirs, conds, flags) ==
    /\ InPasses /\ HasFree(cap)
    /\ \E s \in sems, d \in dirs, c \in conds, f \in flags :
          /\ Store(NextId(cap), SemaphoreAdjustment(s, d, c, f),
                   Constructed(<<s, d, c, f>>))
          /\ result' = Call("SemaphoreAdjustment", NextId(cap), <<s, d, c, f>>,
                            Returned("node", NextId(cap)))
    /\ UNCHANGED <<locals, emitted>>
    /\ UNCHANGED profilerVars

NewSemaphoreAdjustmentDefault(cap, sems, dirs) ==
    /\ InPasses /\ HasFree(cap)
    /\ \E s \in sems, d \in dirs :
          /\ Store(NextId(cap), SemaphoreAdjustment_default(s, d),
                   Constructed(<<s, d>>))
          /\ result' = Call("SemaphoreAdjustment", NextId(cap), <<s, d>>,
                            Returned("node", NextId(cap)))
    /\ UNCHANGED <<locals, emitted>>
    /\ UNCHANGED profilerVars

NewMemoryBarrier(cap, scopes, sems) ==
    /\ InPasses /\ HasFree(cap)
    /\ \E scope \in scopes, semantics \in sems :
          /\ Store(NextId(cap), MemoryBarrier(scope, semantics),
                   Constructed(<<scope, semantics>>))
          /\ result' = Call("MemoryBarrier", NextId(cap), <<scope, semantics>>,
                            Returned("node", NextId(cap)))
    /\ UNCHANGED <<locals, emitted>>
    /\ UNCHANGED profilerVars

NewLifetimeBoundary(cap, ends) ==
    /\ InPasses /\ HasFree(cap)
    /\ \E allocation \in Operands, lifetimeEnd \in ends :
          LET made == LifetimeBoundary(allocation, lifetimeEnd)
          IN  IF IsError(made.ret)
              THEN /\ result' = Call("LifetimeBoundary", 0,
                                     <<allocation, lifetimeEnd>>, made.ret)
                   /\ UNCHANGED <<nodes, life, origin>>
              ELSE /\ Store(NextId(cap), made.self,
                           Constructed(<<allocation, lifetimeEnd>>))
                   /\ result' = Call("LifetimeBoundary", NextId(cap),
                                     <<allocation, lifetimeEnd>>,
                                     Returned("node", NextId(cap)))
    /\ UNCHANGED <<locals, emitted>>
    /\ UNCHANGED profilerVars

----------------------------------------------------------------------------
(* The operations of a node *)

Render(n) ==
    /\ Exists(n)
    /\ LET r == to_string(nodes[n])
       IN  /\ nodes' = [nodes EXCEPT ![n] = r.self]
           /\ result' = Call("to_string", n, <<>>, r.ret)
    /\ UNCHANGED <<life, origin, locals, emitted>>
    /\ UNCHANGED profilerVars

Query(n) ==
    /\ Exists(n)
    /\ LET r == mapsToASMInstruction(nodes[n])
       IN  /\ nodes' = [nodes EXCEPT ![n] = r.self]
           /\ result' = Call("mapsToASMInstruction", n, <<>>, r.ret)
    /\ UNCHANGED <<life, origin, locals, emitted>>
    /\ UNCHANGED profilerVars

GetStackAllocation(n) ==
    /\ Exists(n) /\ nodes[n].kind = "LifetimeBoundary"
    /\ LET r == LifetimeBoundary_getStackAllocation(nodes[n])
       IN  /\ nodes' = [nodes EXCEPT ![n] = r.self]
           /\ result' = Call("getStackAllocation", n, <<>>, r.ret)
    /\ UNCHANGED <<life, origin, locals, emitted>>
    /\ UNCHANGED profilerVars

\* a pass calls convertToAsm of a node (speculatively, or again)
Lower(n) ==
    /\ Exists(n)
    /\ \E rm \in RegisterMappings, lm \in LabelMappings, idx \in Indices :
          LET r == convertToAsm(nodes[n], rm, lm, idx)
          IN  /\ nodes' = [nodes EXCEPT ![n] = r.self]
              /\ result' = Call("convertToAsm", n, <<rm, lm, idx>>, r.ret)
    /\ UNCHANGED <<life, origin, locals, emitted>>
    /\ UNCHANGED profilerVars

\* a pass adds a decoration to a node in place
Rewrite(n) ==
    /\ InPasses /\ Exists(n) /\ life[n] = "Created"
    /\ \E tag \in DecorationTags :
          /\ \A i \in 1 .. Len(nodes[n].decorations) : nodes[n].decorations[i] # tag
          /\ nodes' = [nodes EXCEPT ![n].decorations = Append(@, tag)]
          /\ result' = Call("addDecorations", n, <<tag>>, Returned("none", TRUE))
    /\ UNCHANGED <<life, origin, locals, emitted>>
    /\ UNCHANGED profilerVars

----------------------------------------------------------------------------
(* The passes and the final lowering over the instruction sequence *)

\* an optimization pass removes a memory barrier or a life-time instruction
Eliminate(n) ==
    /\ InPasses /\ Exists(n) /\ life[n] = "Created"
    /\ nodes[n].kind \in {"MemoryBarrier", "LifetimeBoundary"}
    /\ life' = [life EXCEPT ![n] = "Eliminated"]
    /\ UNCHANGED <<nodes, origin, locals, emitted, result>>
    /\ UNCHANGED profilerVars

CopyNameFits(n, prefix) ==
    nodes[n].kind = "LifetimeBoundary" =>
        Len(prefix) + Len(getArgument(nodes[n], 0).local.name) <= MaxNameLen

\* a pass (inlining) copies a node into a method under a prefix for its locals
Copy(cap, n) ==
    /\ InPasses /\ Exists(n) /\ life[n] = "Created" /\ HasFree(cap)
    /\ \E rule \in CopyRules :
          /\ CopyNameFits(n, rule[2])
          /\ LET method == rule[1]
                 prefix == rule[2]
                 r == copyFor(nodes[n], locals, method, prefix)
                 id == NextId(cap)
             IN  /\ locals' = r.locals
                 /\ IF IsError(r.ret)
                    THEN /\ nodes' = [nodes EXCEPT ![n] = r.self]
                         /\ result' = Call("copyFor", n, <<method, prefix>>, r.ret)
                         /\ UNCHANGED <<life, origin>>
                    ELSE /\ nodes' = [nodes EXCEPT ![n] = r.self, ![id] = r.ret.value]
                         /\ life' = [life EXCEPT ![id] = "Created"]
                         /\ origin' = [origin EXCEPT ![id] = CopyOf(n, method, prefix)]
                         /\ result' = Call("copyFor", n, <<method, prefix>>,
                                           Returned("node", id))
    /\ UNCHANGED emitted
    /\ UNCHANGED profilerVars

\* the final lowering walks the sequence in order and stops at the first error
DriverLower(n) ==
    /\ Exists(n) /\ life[n] = "Created"
    /\ \A i \in 1 .. (n - 1) : life[i] \in {"Lowered", "Eliminated"}
    /\ \E rm \in RegisterMappings, lm \in LabelMappings :
          LET idx == Cardinality({i \in 1 .. (n - 1) : life[i] = "Lowered"})
              r == convertToAsm(nodes[n], rm, lm, idx)
          IN  /\ nodes' = [nodes EXCEPT ![n] = r.self]
              /\ result' = Call("convertToAsm", n, <<rm, lm, idx>>, r.ret)
              /\ IF r.ret.kind = "instruction"
                 THEN /\ life' = [life EXCEPT ![n] = "Lowered"]
                      /\ emitted' = emitted \cup
                             {[node |-> n, index |-> idx, instruction |-> r.ret.value]}
                 ELSE /\ life' = [life EXCEPT ![n] = "ReachedLowering"]
                      /\ emitted' = emitted
    /\ UNCHANGED <<origin, locals>>
    /\ UNCHANGED profilerVars

----------------------------------------------------------------------------
(* Profiler: the functions the threads call.  A mutex is waited for by the   *)
(* guard of the step that locks it.  An addition to a duration, a count or a *)
(* number of invocations is atomic in the code (std::atomic).                *)

Crashed == [t \in Threads |-> [thread[t] EXCEPT !.at = "crashed"]]

Record(table, key, amount) ==
    IF table = "times"
    THEN [recorded EXCEPT !.times[key].duration = @ + amount,
                          !.times[key].invocations = @ + 1]
    ELSE [recorded EXCEPT !.counters[key].count = @ + amount,
                          !.counters[key].invocations = @ + 1]

\* createEntry up to its return with a thread cache, up to the lock without
createEntry(t) ==
    /\ thread[t].at = "idle" /\ recorded.created < MaxCalls
    /\ \E key \in Keys, name \in Names :
          IF threadCache[t].active
          THEN /\ threadCache' = [threadCache EXCEPT
                                     ![t].localTimes = createEntry_record(@, key, name)]
               /\ thread' = [thread EXCEPT ![t].at = "timing", ![t].key = key,
                                           ![t].table = "local"]
               /\ UNCHANGED lockTimes
          ELSE /\ lockTimes = NoThread
               /\ lockTimes' = t
               /\ thread' = [thread EXCEPT ![t].at = "createEntry", ![t].key = key]
               /\ UNCHANGED threadCache
    /\ recorded' = [recorded EXCEPT !.created = @ + 1]
    /\ UNCHANGED <<times, counters, lockCounters>>
    /\ UNCHANGED nodeVars

\* createEntry under the lock: the record in times, the return, the unlock
createEntry_locked(t) ==
    /\ thread[t].at = "createEntry"
    /\ \E name \in Names : times' = createEntry_record(times, thread[t].key, name)
    /\ lockTimes' = NoThread
    /\ thread' = [thread EXCEPT ![t].at = "timing", ![t].table = "global"]
    /\ UNCHANGED <<counters, lockCounters, threadCache, recorded>>
    /\ UNCHANGED nodeVars

\* endFunctionCall on the entry createEntry returned.  The entry of a table that
\* was cleared meanwhile is freed memory: the addition is lost or the program
\* crashes.
endFunctionCall(t) ==
    /\ thread[t].at = "timing"
    /\ \E duration \in Amounts(t) :
          /\ recorded' = Record("times", thread[t].key, duration)
          /\ CASE thread[t].table = "local" ->
                    /\ threadCache' = [threadCache EXCEPT
                          ![t].localTimes[thread[t].key] = endFunctionCall_record(@, duration)]
                    /\ thread' = [thread EXCEPT ![t].at = "idle", ![t].key = 0, ![t].table = "none"]
                    /\ UNCHANGED times
               [] thread[t].table = "global" ->
                    /\ times' = [times EXCEPT
                          ![thread[t].key] = endFunctionCall_record(@, duration)]
                    /\ thread' = [thread EXCEPT ![t].at = "idle", ![t].key = 0, ![t].table = "none"]
                    /\ UNCHANGED threadCache
               [] thread[t].table = "freed" ->
                    /\ \/ thread' = [thread EXCEPT ![t].at = "idle", ![t].key = 0, ![t].table = "none"]
                       \/ thread' = Crashed
                    /\ UNCHANGED <<times, threadCache>>
    /\ UNCHANGED <<counters, lockTimes, lockCounters>>
    /\ UNCHANGED nodeVars

createCounter(t) ==
    /\ thread[t].at = "idle" /\ recorded.created < MaxCalls
    /\ \E index \in Keys, name \in Names : \E prevIndex \in PrevIndices(index) :
          IF threadCache[t].active
          THEN /\ threadCache' = [threadCache EXCEPT
                      ![t].localCounters = createCounter_record(@, index, name, prevIndex)]
               /\ thread' = [thread EXCEPT ![t].at = "counting", ![t].key = index,
                                           ![t].table = "local"]
               /\ UNCHANGED lockCounters
          ELSE /\ lockCounters = NoThread
               /\ lockCounters' = t
               /\ thread' = [thread EXCEPT ![t].at = "createCounter", ![t].key = index]
               /\ UNCHANGED threadCache
    /\ recorded' = [recorded EXCEPT !.created = @ + 1]
    /\ UNCHANGED <<times, counters, lockTimes>>
    /\ UNCHANGED nodeVars

createCounter_locked(t) ==
    /\ thread[t].at = "createCounter"
    /\ \E name \in Names, prevIndex \in PrevIndices(thread[t].key) :
          counters' = createCounter_record(counters, thread[t].key, name, prevIndex)
    /\ lockCounters' = NoThread
    /\ thread' = [thread EXCEPT ![t].at = "counting", ![t].table = "global"]
    /\ UNCHANGED <<times, lockTimes, threadCache, recorded>>
    /\ UNCHANGED nodeVars

increaseCounter(t) ==
    /\ thread[t].at = "counting"
    /\ \E value \in Amounts(t) :
          /\ recorded' = Record("counters", thread[t].key, value)
          /\ CASE thread[t].table = "local" ->
                    /\ threadCache' = [threadCache EXCEPT
                          ![t].localCounters[thread[t].key] = increaseCounter_record(@, value)]
                    /\ thread' = [thread EXCEPT ![t].at = "idle", ![t].key = 0, ![t].table = "none"]
                    /\ UNCHANGED counters
               [] thread[t].table = "global" ->
                    /\ counters' = [counters EXCEPT
                          ![thread[t].key] = increaseCounter_record(@, value)]
                    /\ thread' = [thread EXCEPT ![t].at = "idle", ![t].key = 0, ![t].table = "none"]
                    /\ UNCHANGED threadCache
               [] thread[t].table = "freed" ->
                    /\ \/ thread' = [thread EXCEPT ![t].at = "idle", ![t].key = 0, ![t].table = "none"]
                       \/ thread' = Crashed
                    /\ UNCHANGED <<counters, threadCache>>
    /\ UNCHANGED <<times, lockTimes, lockCounters>>
    /\ UNCHANGED nodeVars

\* the destructor is over: threadCache is empty, or the new cache
Destroyed(t, after) ==
    /\ threadCache' = [threadCache EXCEPT
           ![t] = IF after = "fresh" THEN ThreadResultCache ELSE NoCache]
    /\ thread' = [thread EXCEPT ![t].at = "idle", ![t].after = "none"]

\* ~ThreadResultCache from if(!localCounters.empty()) up to the lock of
\* lockCounters, or up to its end when there is no counter to write back
ThreadResultCache_toCounters(t, after) ==
    IF PresentKeys(threadCache[t].localCounters) = {}
    THEN Destroyed(t, after)
    ELSE /\ thread' = [thread EXCEPT ![t].at = "destructor_counters", ![t].after = after]
         /\ UNCHANGED threadCache

\* ~ThreadResultCache from its start up to the lock of the first mutex it
\* needs, or up to its end when the cache holds nothing
ThreadResultCache_destructor(t, after) ==
    IF PresentKeys(threadCache[t].localTimes) = {}
    THEN ThreadResultCache_toCounters(t, after)
    ELSE /\ thread' = [thread EXCEPT ![t].at = "destructor", ![t].after = after]
         /\ UNCHANGED threadCache

\* threadCache = std::make_unique<ThreadResultCache>(): the cache the thread had
\* is destroyed, and so written back, before the call returns
startThreadCache(t) ==
    /\ thread[t].at = "idle"
    /\ IF threadCache[t].active
       THEN ThreadResultCache_destructor(t, "fresh")
       ELSE /\ threadCache' = [threadCache EXCEPT ![t] = ThreadResultCache]
            /\ UNCHANGED thread
    /\ UNCHANGED <<times, counters, lockTimes, lockCounters, recorded>>
    /\ UNCHANGED nodeVars

\* threadCache.reset()
flushThreadCache(t) ==
    /\ thread[t].at = "idle"
    /\ threadCache[t].active
    /\ ThreadResultCache_destructor(t, "none")
    /\ UNCHANGED <<times, counters, lockTimes, lockCounters, recorded>>
    /\ UNCHANGED nodeVars

\* std::lock_guard<std::mutex> guard(lockTimes)
ThreadResultCache_lockTimes(t) ==
    /\ thread[t].at = "destructor"
    /\ lockTimes = NoThread
    /\ lockTimes' = t
    /\ thread' = [thread EXCEPT ![t].at = "flushTimes"]
    /\ UNCHANGED <<times, counters, lockCounters, threadCache, recorded>>
    /\ UNCHANGED nodeVars

\* one turn of the loop over localTimes, in the order of the unordered map
ThreadResultCache_flushTimes(t) ==
    /\ thread[t].at = "flushTimes"
    /\ \E key \in PresentKeys(threadCache[t].localTimes) :
          /\ times' = [times EXCEPT ![key] =
                 ThreadResultCache_flushEntry(@, threadCache[t].localTimes[key])]
          /\ threadCache' = [threadCache EXCEPT ![t].localTimes[key] = NoEntry]
    /\ UNCHANGED <<counters, lockTimes, lockCounters, thread, recorded>>
    /\ UNCHANGED nodeVars

\* the end of the loop over localTimes: the guard unlocks
ThreadResultCache_flushedTimes(t) ==
    /\ thread[t].at = "flushTimes"
    /\ PresentKeys(threadCache[t].localTimes) = {}
    /\ lockTimes' = NoThread
    /\ ThreadResultCache_toCounters(t, thread[t].after)
    /\ UNCHANGED <<times, counters, lockCounters, recorded>>
    /\ UNCHANGED nodeVars

\* std::lock_guard<std::mutex> guard(lockCounters)
ThreadResultCache_lockCounters(t) ==
    /\ thread[t].at = "destructor_counters"
    /\ lockCounters = NoThread
    /\ lockCounters' = t
    /\ thread' = [thread EXCEPT ![t].at = "flushCounters"]
    /\ UNCHANGED <<times, counters, lockTimes, threadCache, recorded>>
    /\ UNCHANGED nodeVars

\* one turn of the loop over localCounters, in the order of the indices
ThreadResultCache_flushCounters(t) ==
    /\ thread[t].at = "flushCounters"
    /\ PresentKeys(threadCache[t].localCounters) # {}
    /\ LET index == CHOOSE i \in PresentKeys(threadCache[t].localCounters) :
                        \A j \in PresentKeys(threadCache[t].localCounters) : i <= j
       IN  /\ counters' = [counters EXCEPT ![index] =
                  ThreadResultCache_flushCounter(@, threadCache[t].localCounters[index])]
           /\ threadCache' = [threadCache EXCEPT ![t].localCounters[index] = NoCounter]
    /\ UNCHANGED <<times, lockTimes, lockCounters, thread, recorded>>
    /\ UNCHANGED nodeVars

\* the end of the loop over localCounters: the guard unlocks, the destructor ends
ThreadResultCache_flushedCounters(t) ==
    /\ thread[t].at = "flushCounters"
    /\ PresentKeys(threadCache[t].localCounters) = {}
    /\ lockCounters' = NoThread
    /\ Destroyed(t, thread[t].after)
    /\ UNCHANGED <<times, counters, lockTimes, recorded>>
    /\ UNCHANGED nodeVars

\* dumpProfileResults up to the body of the logged block: logLazy runs the block
\* when the level is logged, and the block locks both mutexes (std::lock)
dumpProfileResults(t) ==
    /\ thread[t].at = "idle"
    /\ \E logged \in BOOLEAN :
          IF logged
          THEN /\ lockTimes = NoThread /\ lockCounters = NoThread
               /\ lockTimes' = t /\ lockCounters' = t
               /\ thread' = [thread EXCEPT ![t].at = "dump_block"]
          ELSE /\ thread' = [thread EXCEPT ![t].at = "dump_clear_times"]
               /\ UNCHANGED <<lockTimes, lockCounters>>
    /\ UNCHANGED <<times, counters, threadCache, recorded>>
    /\ UNCHANGED nodeVars

\* the logged block: the loops over times and counters, counters[prevCounter]
\* (which inserts the counter it does not find), the unlock of both mutexes
dumpProfileResults_block(t) ==
    /\ thread[t].at = "dump_block"
    /\ counters' = [index \in Keys |->
           IF ~counters[index].present
                  /\ \E c \in PresentKeys(counters) : counters[c].prevCounter = index
           THEN Counter ELSE counters[index]]
    /\ lockTimes' = NoThread /\ lockCounters' = NoThread
    /\ thread' = [thread EXCEPT ![t].at = "dump_clear_times"]
    /\ UNCHANGED <<times, threadCache, recorded>>
    /\ UNCHANGED nodeVars

\* thread t goes on to place after it cleared a table; the pointers into the
\* table that the other threads hold (they are at holding) point to freed memory
Freed(t, place, holding) ==
    [u \in Threads |->
        IF u = t THEN [thread[t] EXCEPT !.at = place]
        ELSE IF thread[u].at = holding /\ thread[u].table = "global"
             THEN [thread[u] EXCEPT !.table = "freed"]
             ELSE thread[u]]

\* times.clear(), after the block and its locks.  Cleared while another thread
\* is inside the table (a data race), the table is cleared or the program
\* crashes.
dumpProfileResults_clearTimes(t) ==
    /\ thread[t].at = "dump_clear_times"
    /\ \/ /\ times' = EmptyTimes
          /\ thread' = Freed(t, "dump_clear_counters", "timing")
       \/ /\ lockTimes # NoThread
          /\ thread' = Crashed
          /\ UNCHANGED times
    /\ UNCHANGED <<counters, lockTimes, lockCounters, threadCache, recorded>>
    /\ UNCHANGED nodeVars

\* counters.clear()
dumpProfileResults_clearCounters(t) ==
    /\ thread[t].at = "dump_clear_counters"
    /\ \/ /\ counters' = EmptyCounters
          /\ thread' = Freed(t, "idle", "counting")
       \/ /\ lockCounters # NoThread
          /\ thread' = Crashed
          /\ UNCHANGED counters
    /\ UNCHANGED <<times, lockTimes, lockCounters, threadCache, recorded>>
    /\ UNCHANGED nodeVars

----------------------------------------------------------------------------
(* Specifications *)

\* a node built by a pass, its copies into other methods, the passes over them
\* and the final lowering
Next ==
    \/ NewSemaphoreAdjustment(1, SomeSemaphores, {FALSE}, SomeConditions, {"SET_FLAGS"})
    \/ NewMemoryBarrier(1, SomeScopes, SomeSemantics)
    \/ NewLifetimeBoundary(1, {FALSE})
    \/ \E n \in Ids : Rewrite(n)
    \/ \E n \in Ids : Eliminate(n)
    \/ \E n \in Ids : Copy(MaxNodes, n)
    \/ \E n \in Ids : DriverLower(n)

Spec == Init /\ [][Next]_vars

\* one node of any kind and field values, and the calls of its operations
NextNode ==
    \/ NewSemaphoreAdjustment(1, Semaphores, BOOLEAN, ConditionCodes, SetFlags)
    \/ NewSemaphoreAdjustmentDefault(1, Semaphores, BOOLEAN)
    \/ NewMemoryBarrier(1, AllScopes, AllSemantics)
    \/ NewLifetimeBoundary(1, BOOLEAN)
    \/ Render(1)
    \/ Query(1)
    \/ GetStackAllocation(1)
    \/ Rewrite(1)
    \/ Lower(1)

SpecNode == Init /\ [][NextNode]_vars

\* a life-time instruction built by a pass, its copies into other methods, and
\* the calls of their operations
NextLifetime ==
    \/ NewLifetimeBoundary(1, BOOLEAN)
    \/ \E n \in Ids : Copy(MaxNodes, n)
    \/ \E n \in Ids : Render(n)
    \/ \E n \in Ids : Lower(n)
    \/ \E n \in Ids : GetStackAllocation(n)
    \/ \E n \in Ids : Rewrite(n)

SpecLifetime == Init /\ [][NextLifetime]_vars

\* a node of any kind built by a pass, annotated, and copied into other methods
NextCopy ==
    \/ NewSemaphoreAdjustment(1, Semaphores, BOOLEAN, ConditionCodes, SetFlags)
    \/ NewSemaphoreAdjustmentDefault(1, Semaphores, BOOLEAN)
    \/ NewMemoryBarrier(1, AllScopes, CopiedSemantics)
    \/ NewLifetimeBoundary(1, BOOLEAN)
    \/ Rewrite(1)
    \/ \E n \in Ids : Copy(MaxNodes, n)

SpecCopy == Init /\ [][NextCopy]_vars

\* threads that record durations and counts, with and without a thread cache,
\* and write their caches back
NextFlush ==
    \/ \E t \in Threads : createEntry(t)
    \/ \E t \in Threads : createEntry_locked(t)
    \/ \E t \in Threads : endFunctionCall(t)
    \/ \E t \in Threads : createCounter(t)
    \/ \E t \in Threads : createCounter_locked(t)
    \/ \E t \in Threads : increaseCounter(t)
    \/ \E t \in Threads : startThreadCache(t)
    \/ \E t \in Threads : flushThreadCache(t)
    \/ \E t \in Threads : ThreadResultCache_lockTimes(t)
    \/ \E t \in Threads : ThreadResultCache_flushTimes(t)
    \/ \E t \in Threads : ThreadResultCache_flushedTimes(t)
    \/ \E t \in Threads : ThreadResultCache_lockCounters(t)
    \/ \E t \in Threads : ThreadResultCache_flushCounters(t)
    \/ \E t \in Threads : ThreadResultCache_flushedCounters(t)

SpecFlush == Init /\ [][NextFlush]_vars

\* the same threads, any of which may also dump the profile results
NextProfiler ==
    \/ NextFlush
    \/ \E t \in Threads : dumpProfileResults(t)
    \/ \E t \in Threads : dumpProfileResults_block(t)
    \/ \E t \in Threads : dumpProfileResults_clearTimes(t)
    \/ \E t \in Threads : dumpProfileResults_clearCounters(t)

SpecProfiler == Init /\ [][NextProfiler]_vars

----------------------------------------------------------------------------
(* Properties *)

IsCall(op, kind) ==
    /\ result.op = op
    /\ result.node \in Ids
    /\ nodes[result.node].kind = kind

\* the step is a call: the record of the last call changes
SameCall(c, d) ==
    /\ c.op = d.op
    /\ c.node = d.node
    /\ c.inputs = d.inputs
    /\ c.out = d.out

Called(op) == result'.op = op /\ ~SameCall(result, result')

Receiver == nodes[result.node]
Built == origin[result.node].inputs

\* C1: lowering a SemaphoreAdjustment built for semaphore s and direction d,
\* under any register mapping, label mapping and instruction index, returns one
\* machine instruction, never an error, and that instruction has semaphore s
\* and direction d.
C1_LoweredSemaphoreKeepsIdAndDirection ==
    IsCall("convertToAsm", "SemaphoreAdjustment") =>
        /\ result.out.kind = "instruction"
        /\ result.out.value.semaphore = Built[1]
        /\ result.out.value.increment = Built[2]
        /\ Built[1] \in Semaphores

C1_Witness ==
    /\ IsCall("convertToAsm", "SemaphoreAdjustment")
    /\ result.inputs[1] = <<>> /\ result.inputs[2] = <<>>
    /\ result.out.kind = "instruction"
    /\ result.out.value.semaphore = NumSemaphores - 1
    /\ ~result.out.value.increment

\* The decimal numerals
Numerals == <<"0", "1", "2", "3", "4", "5", "6", "7", "8", "9", "10", "11", "12">>

\* C5: rendering a MemoryBarrier returns a text for each of the five scopes of
\* the enumeration with every semantics bitset (the empty one too); for a
\* scope value outside the enumeration it raises the unsupported-value error
\* that carries the scope value as a decimal number, and returns no text.
C5_RenderTotalOnScopesElseUnsupported ==
    IsCall("to_string", "MemoryBarrier") =>
        IF Receiver.scope \in MemoryScopes
        THEN result.out.kind = "text"
        ELSE result.out = CompilationError("GENERAL", "Unsupported memory scope value",
                                           Numerals[Receiver.scope + 1])

C5_Witness ==
    /\ IsCall("to_string", "MemoryBarrier")
    /\ Receiver.scope \notin MemoryScopes
    /\ Receiver.semantics = {}
    /\ IsError(result.out)

\* C7: the encodability query is true for every SemaphoreAdjustment and false
\* for every MemoryBarrier and LifetimeBoundary whatever their fields, and
\* lowering a node returns a machine instruction exactly when the query of
\* that node is true.
C7_QueryAgreesWithLowering ==
    /\ result.op = "mapsToASMInstruction" =>
          result.out = Returned("bool", Receiver.kind = "SemaphoreAdjustment")
    /\ result.op = "convertToAsm" =>
          ((result.out.kind = "instruction") <=> mapsToASMInstruction(Receiver).ret.value)

C7_Witness ==
    /\ IsCall("convertToAsm", "MemoryBarrier")
    /\ Receiver.decorations # <<>>
    /\ result.out.kind = "error"
    /\ ~mapsToASMInstruction(Receiver).ret.value

\* C10: the machine instruction of a lowered SemaphoreAdjustment has the no-op
\* pack mode, the predicate of the node as execute condition and as flag-update
\* condition, the flag-write mode of the node (disabled when the node was built
\* without one), no swap, and the no-data register in both register fields,
\* whatever the register mapping, the label mapping and the instruction index.
C10_LoweredSemaphoreEncoding ==
    IsCall("convertToAsm", "SemaphoreAdjustment") =>
        LET predicate == IF Len(Built) = 2 THEN "COND_ALWAYS" ELSE Built[3]
            flagWrite == IF Len(Built) = 2 THEN "DONT_SET" ELSE Built[4]
        IN  /\ result.out.kind = "instruction"
            /\ result.out.value.pack = "PACK_NOP"
            /\ result.out.value.condExecute = predicate
            /\ result.out.value.condFlags = predicate
            /\ result.out.value.setFlags = flagWrite
            /\ result.out.value.writeSwap = "DONT_SWAP"
            /\ result.out.value.addOut = 39
            /\ result.out.value.mulOut = 39

C10_Witness ==
    /\ IsCall("convertToAsm", "SemaphoreAdjustment")
    /\ Len(Built) = 2
    /\ result.inputs[1] # <<>> /\ result.inputs[3] = MaxIndex
    /\ result.out.kind = "instruction"
    /\ result.out.value.setFlags = "DONT_SET"

\* The text the specification gives for a MemoryBarrier
ScopeWord(scope) ==
    CASE scope = CROSS_DEVICE -> "global" [] scope = DEVICE -> "device"
      [] scope = SUB_GROUP -> "sub-group" [] scope = WORK_GROUP -> "work-group"
      [] scope = INVOCATION -> "invocation"

RECURSIVE WordsOf(_, _)
WordsOf(table, semantics) ==
    IF table = <<>> THEN <<>>
    ELSE (IF Head(table)[1] \cap semantics # {} THEN <<Head(table)[2]>> ELSE <<>>)
             \o WordsOf(Tail(table), semantics)

HyphenWords ==
    << <<{"ACQUIRE", "ACQUIRE_RELEASE"}, "acquire">>,
       <<{"RELEASE", "ACQUIRE_RELEASE"}, "release">>,
       <<{"SEQUENTIALLY_CONSISTENT"}, "sequentially-consistent">>,
       <<{"SUBGROUP_MEMORY"}, "sub-group">>,
       <<{"WORK_GROUP_MEMORY"}, "work-group">>,
       <<{"CROSS_WORK_GROUP_MEMORY"}, "global">>,
       <<{"ATOMIC_COUNTER_MEMORY"}, "atomic-counter">>,
       <<{"IMAGE_MEMORY"}, "image">> >>

SpaceWords ==
    [HyphenWords EXCEPT ![3] = <<{"SEQUENTIALLY_CONSISTENT"}, "sequentially consistent">>,
                        ![7] = <<{"ATOMIC_COUNTER_MEMORY"}, "atomic counter">>]

FenceText(table, node) ==
    "mem-fence " \o ScopeWord(node.scope) \o ", "
        \o vc4c_to_string(WordsOf(table, node.semantics), "|")

\* The error of a node that reached the code generation
KindMessage(kind) ==
    IF kind = "MemoryBarrier"
    THEN "There should be no more memory barriers at this point"
    ELSE "There should be no more lifetime instructions at this point"

IsCodeGenerationError(out, node) ==
    /\ out.kind = "error"
    /\ out.step = "CODE_GENERATION"
    /\ out.message = KindMessage(node.kind)
    /\ to_string(node).ret = Returned("text", out.text)

\* C3 as stated: every lowering of a MemoryBarrier or a LifetimeBoundary, whatever
\* its fields and the mappings, fails with the code-generation error that names
\* the kind and carries the rendered text of the node; nothing else is the outcome.
C3_Original ==
    (IsCall("convertToAsm", "MemoryBarrier") \/ IsCall("convertToAsm", "LifetimeBoundary"))
        => IsCodeGenerationError(result.out, Receiver)

\* C3: every lowering of a LifetimeBoundary, and of a MemoryBarrier whose scope
\* is one of the enumeration, fails with the code-generation error that names
\* the kind and carries the rendered text of the node; the lowering of a
\* MemoryBarrier whose scope is outside the enumeration fails with the
\* unsupported-value error of the rendering; no instruction is ever the outcome.
C3_LoweringMetaFails ==
    (IsCall("convertToAsm", "MemoryBarrier") \/ IsCall("convertToAsm", "LifetimeBoundary"))
        => IF Receiver.kind = "MemoryBarrier" /\ Receiver.scope \notin MemoryScopes
           THEN result.out = CompilationError("GENERAL", "Unsupported memory scope value",
                                              Numerals[Receiver.scope + 1])
           ELSE IsCodeGenerationError(result.out, Receiver)

C3_Witness ==
    /\ IsCall("convertToAsm", "LifetimeBoundary")
    /\ result.out = CompilationError("CODE_GENERATION",
                        "There should be no more lifetime instructions at this point",
                        "life-time for %x ends")

\* C6 as stated: for a scope of the enumeration the rendered text is "mem-fence ",
\* the scope word, ", " and the words acquire, release, sequentially-consistent,
\* sub-group, work-group, global, atomic-counter, image of the set bits, in this
\* order, joined by "|".
C6_Original ==
    (IsCall("to_string", "MemoryBarrier") /\ Receiver.scope \in MemoryScopes)
        => result.out = Returned("text", FenceText(HyphenWords, Receiver))

\* C6: for a scope of the enumeration the rendered text is "mem-fence ", the scope
\* word, ", " and the words acquire, release, sequentially consistent, sub-group,
\* work-group, global, atomic counter, image of the set bits (acquire-release
\* gives acquire and release), in this order, each once, joined by "|", followed
\* by the rendering of the annotations of the node.
C6_RenderedFenceText ==
    (IsCall("to_string", "MemoryBarrier") /\ Receiver.scope \in MemoryScopes)
        => result.out = Returned("text", FenceText(SpaceWords, Receiver)
                                             \o createAdditionalInfoString(Receiver))

C6_Witness ==
    /\ IsCall("to_string", "MemoryBarrier")
    /\ Receiver.semantics = {"ACQUIRE_RELEASE", "SEQUENTIALLY_CONSISTENT",
                             "ATOMIC_COUNTER_MEMORY"}
    /\ result.out = Returned("text",
           "mem-fence device, acquire|release|sequentially consistent|atomic counter")

\* An operand a LifetimeBoundary must not be built over
InvalidOperand(v) == ~(v.valueType = "LOCAL" /\ v.local.localKind = "StackAllocation")

C4_Rejected ==
    (result'.op = "LifetimeBoundary" /\ InvalidOperand(result'.inputs[1])) =>
        /\ result'.out.kind = "error"
        /\ result'.out.step = "LLVM_2_IR"
        /\ result'.node = 0
        /\ LifetimeBoundary(result'.inputs[1], result'.inputs[2]).self.arguments = <<>>
        /\ UNCHANGED <<nodes, life, origin, locals, emitted>>

C4_NeverStored ==
    /\ \A n \in Ids : nodes[n].kind = "LifetimeBoundary" =>
          \A i \in 1 .. Len(nodes[n].arguments) : ~InvalidOperand(nodes[n].arguments[i])
    /\ result.op = "getStackAllocation" => ~InvalidOperand(result.out.value)

\* C4: building a LifetimeBoundary over an operand that is no local, or a local
\* that is no stack allocation, raises the construction error with nothing
\* stored: the abandoned object has no argument, no node is added and nothing
\* else changes; no node ever holds such an operand and getStackAllocation never
\* returns one.
C4_InvalidOperandRejected == []C4_NeverStored /\ [][C4_Rejected]_vars

C4_Witness ==
    /\ result.op = "LifetimeBoundary"
    /\ result.inputs[1] = LocalValue(Local("f", "y", "Parameter"))
    /\ IsError(result.out)
    /\ \A n \in Ids : nodes[n] = NoNode

\* A step that calls to_string or convertToAsm
C9_Pure ==
    (Called("to_string") \/ Called("convertToAsm")) =>
        /\ nodes' = nodes
        /\ UNCHANGED <<life, origin, locals, emitted>>
        /\ ~(result.op = result'.op /\ result.node = result'.node
                /\ result.inputs = result'.inputs /\ result.out # result'.out)

\* C9: a call of to_string or convertToAsm, returning or raising, changes neither
\* the node nor anything else, and the same call made again on the same node
\* with the same inputs has the same outcome.
C9_RenderAndLowerArePure == [][C9_Pure]_vars

C9_Witness ==
    /\ IsCall("convertToAsm", "SemaphoreAdjustment")
    /\ Len(Built) = 4 /\ Built[4] = "SET_FLAGS"
    /\ Receiver = SemaphoreAdjustment(Built[1], Built[2], Built[3], Built[4])
    /\ result.out.kind = "instruction"

\* The nodes that must be eliminated before the lowering
Meta(n) == nodes[n].kind \in {"MemoryBarrier", "LifetimeBoundary"}

C2_States ==
    /\ \A n \in Ids : Meta(n) => life[n] \in {"Created", "Eliminated", "ReachedLowering"}
    /\ \A e \in emitted : ~Meta(e.node)

C2_Transitions ==
    \A n \in Ids : Meta(n) =>
        /\ nodes'[n].kind = nodes[n].kind
        /\ life[n] = "Created" =>
              life'[n] \in {"Created", "Eliminated", "ReachedLowering"}
        /\ life[n] \in {"Eliminated", "ReachedLowering"} =>
              (life'[n] = life[n] /\ nodes'[n] = nodes[n])
        /\ (life[n] = "Created" /\ life'[n] = "ReachedLowering") =>
              (result'.op = "convertToAsm" /\ result'.node = n /\ IsError(result'.out))
        /\ (life[n] = "Created" /\ life'[n] = "Created" /\ nodes'[n] # nodes[n]) =>
              (result'.op = "addDecorations" /\ result'.node = n)

\* C2: a MemoryBarrier or LifetimeBoundary is Created, Eliminated or
\* ReachedLowering; from Created it stays Created (a rewrite), becomes Eliminated
\* (a pass) or becomes ReachedLowering (the lowering called on it fails);
\* Eliminated and ReachedLowering are final; no machine instruction is ever
\* produced for such a node.
C2_MetaLifecycle == []C2_States /\ [][C2_Transitions]_vars

C2_Witness ==
    \E a, b \in Ids :
        /\ Meta(a) /\ Meta(b)
        /\ life[a] = "Eliminated" /\ life[b] = "ReachedLowering"
        /\ nodes[b].decorations # <<>>

\* The copies of a node
Operand(n) == getArgument(nodes[n], 0)

Resolved(c) ==
    /\ Len(nodes[c].arguments) = 1
    /\ Operand(c).valueType = "LOCAL"
    /\ Operand(c).local.localKind = "StackAllocation"
    /\ Operand(c).local.method = origin[c].method
    /\ Operand(c).local.name = origin[c].prefix \o Operand(origin[c].source).local.name
    /\ Operand(c).local \in locals

TwoCopies(a, b) ==
    /\ a # b
    /\ origin[a].how = "copy" /\ origin[b].how = "copy"
    /\ origin[a].source = origin[b].source
    /\ <<origin[a].method, origin[a].prefix>> # <<origin[b].method, origin[b].prefix>>

C8_Copies ==
    /\ \A a, b \in Ids : TwoCopies(a, b) =>
          /\ a # origin[a].source /\ b # origin[a].source
          /\ nodes[a].kind = nodes[origin[a].source].kind
          /\ nodes[b].kind = nodes[origin[a].source].kind
          /\ nodes[a].kind = "LifetimeBoundary" =>
                (Operand(a) # Operand(b) /\ Resolved(a) /\ Resolved(b))
    /\ (result.op = "copyFor" /\ IsError(result.out)) => result.out.step = "LLVM_2_IR"

C8_SourceKept ==
    (Called("copyFor") \/ origin' # origin) =>
        \A m \in Ids : Exists(m) => nodes'[m] = nodes[m]

\* C8: two copies of one node made under two different (method, prefix) pairs are
\* two more nodes of the kind of the original; a copy leaves every existing node
\* as it was; the two copies of a LifetimeBoundary have different operands, each
\* a stack allocation of its destination method named prefix + name of the
\* original; a copy that fails fails with the construction error.
C8_TwoCopiesIndependent == []C8_Copies /\ [][C8_SourceKept]_vars

C8_Witness ==
    \E a, b \in Ids :
        /\ TwoCopies(a, b)
        /\ nodes[a].kind = "LifetimeBoundary"
        /\ Operand(a).local = Local("g", "a.x", "StackAllocation")
        /\ Operand(b).local = Local("f", "a.x", "StackAllocation")
        /\ Operand(origin[a].source).local = Local("f", "x", "StackAllocation")

\* The text of the operation of a node, without its annotations
OperationText(node) ==
    CASE node.kind = "SemaphoreAdjustment" ->
            "semaphore " \o std_to_string(node.semaphore) \o " "
                \o (IF node.increase THEN "increase" ELSE "decrease")
      [] node.kind = "MemoryBarrier" -> FenceText(SpaceWords, node)
      [] node.kind = "LifetimeBoundary" ->
            "life-time for %" \o node.arguments[1].local.name
                \o (IF node.isLifetimeEnd THEN " ends" ELSE " starts")

\* C11: for each of the three kinds, a rendering that returns a text returns the
\* text of the operation followed by the rendering of the annotations of the
\* node, so the annotations of a node are present in its rendered text.
C11_RenderEndsWithAnnotations ==
    (result.op = "to_string" /\ result.out.kind = "text") =>
        result.out.value = OperationText(Receiver) \o createAdditionalInfoString(Receiver)

\* The operand a LifetimeBoundary was given: the one of its construction, or
\* for a copy the local of the destination method named prefix + name of the
\* operand of its source
RECURSIVE Supplied(_)
Supplied(n) ==
    IF origin[n].how = "constructed" THEN origin[n].inputs[1]
    ELSE [valueType |-> "LOCAL", literal |-> "",
          local |-> [method |-> origin[n].method,
                     name |-> origin[n].prefix \o Supplied(origin[n].source).local.name,
                     localKind |-> "StackAllocation"]]

\* C12: after any constructions, copies, renderings and lowering attempts, every
\* LifetimeBoundary has exactly one argument, a local that is a stack allocation,
\* and getStackAllocation returns this operand, which is the one supplied at
\* the construction, or the renamed one for a copy.
C12_OneStackAllocationArgument ==
    /\ \A n \in Ids : nodes[n].kind = "LifetimeBoundary" =>
          /\ Len(nodes[n].arguments) = 1
          /\ nodes[n].arguments[1].valueType = "LOCAL"
          /\ nodes[n].arguments[1].local.localKind = "StackAllocation"
          /\ nodes[n].arguments[1].local \in locals
          /\ nodes[n].arguments[1] = Supplied(n)
          /\ LifetimeBoundary_getStackAllocation(nodes[n]).ret
                = Returned("value", nodes[n].arguments[1])
    /\ result.op = "getStackAllocation" =>
          result.out = Returned("value", Supplied(result.node))

C12_Witness ==
    /\ result.op = "getStackAllocation"
    /\ origin[result.node].how = "copy"
    /\ nodes[result.node].decorations # <<>>
    /\ result.out.value.local = Local("g", "a.x", "StackAllocation")
    /\ \E m \in Ids : m # result.node /\ origin[m].how = "constructed"
                         /\ nodes[m].isLifetimeEnd

\* The kind-specific scalar fields of a node
ScalarFields(node) ==
    CASE node.kind = "SemaphoreAdjustment" -> <<node.semaphore, node.increase>>
      [] node.kind = "MemoryBarrier" -> <<node.scope, node.semantics>>
      [] node.kind = "LifetimeBoundary" -> <<node.isLifetimeEnd>>

\* A step that makes a copy: the source and the copy right after it
C13_CopyStep ==
    (Called("copyFor") /\ ~IsError(result'.out)) =>
        LET src == nodes[result'.node]
            copy == nodes'[result'.out.value]
        IN  /\ result'.out.value # result'.node
            /\ copy.kind = src.kind
            /\ ScalarFields(copy) = ScalarFields(src)
            /\ copy.conditional = src.conditional
            /\ copy.setFlags = src.setFlags
            /\ copy.decorations = src.decorations
            /\ src.kind \in {"SemaphoreAdjustment", "MemoryBarrier"} =>
                  to_string(copy).ret = to_string(src).ret

\* C13: a copy has the kind, the kind-specific scalar fields (semaphore and
\* direction, scope and semantics, start/end flag), the predicate, the flag-write
\* mode and the annotations of its source, and the copy of a SemaphoreAdjustment
\* or a MemoryBarrier renders as its source does.
C13_CopyKeepsFields == [][C13_CopyStep]_vars

C13_Witness ==
    /\ result.op = "copyFor" /\ ~IsError(result.out)
    /\ nodes[result.out.value].kind = "SemaphoreAdjustment"
    /\ nodes[result.out.value].decorations = <<"unsigned">>
    /\ nodes[result.out.value].conditional = "COND_CARRY_CLEAR"
    /\ nodes[result.out.value].setFlags = "SET_FLAGS"
    /\ nodes[result.out.value].semaphore = NumSemaphores - 1
    /\ to_string(nodes[result.out.value]).ret
          = Returned("text", "semaphore 15 increase (unsigned)")

\* Every thread is outside the profiler and holds nothing that is not written back
AllWrittenBack ==
    \A t \in Threads :
        /\ thread[t].at = "idle"
        /\ PresentKeys(threadCache[t].localTimes) = {}
        /\ PresentKeys(threadCache[t].localCounters) = {}

C14_Totals ==
    AllWrittenBack =>
        \A key \in Keys :
            /\ times[key].duration = recorded.times[key].duration
            /\ times[key].invocations = recorded.times[key].invocations
            /\ counters[key].count = recorded.counters[key].count
            /\ counters[key].invocations = recorded.counters[key].invocations

\* A step of the destructor of a cache that takes a record out of the cache
C14_WriteBack ==
    \A t \in Threads, key \in Keys :
        /\ (threadCache[t].localTimes[key].present
                /\ ~threadCache'[t].localTimes[key].present) =>
              LET entry == threadCache[t].localTimes[key]
              IN  IF times[key].present
                  THEN /\ times'[key].duration = times[key].duration + entry.duration
                       /\ times'[key].invocations
                             = times[key].invocations + entry.invocations
                  ELSE times'[key] = entry
        /\ (threadCache[t].localCounters[key].present
                /\ ~threadCache'[t].localCounters[key].present) =>
              LET entry == threadCache[t].localCounters[key]
              IN  IF counters[key].present
                  THEN /\ counters'[key].count = counters[key].count + entry.count
                       /\ counters'[key].invocations
                             = counters[key].invocations + entry.invocations
                  ELSE counters'[key] = entry
        /\ (thread[t].at \in {"flushTimes", "flushCounters"} /\ thread'[t].at = "idle") =>
              /\ PresentKeys(threadCache[t].localTimes) = {}
              /\ PresentKeys(threadCache[t].localCounters) = {}

InTimes(t) == thread[t].at \in {"createEntry", "flushTimes", "dump_block", "dump_clear_times"}
InCounters(t) ==
    thread[t].at \in {"createCounter", "flushCounters", "dump_block", "dump_clear_counters"}

\* C15: under any interleaving of createEntry, createCounter, the flush of a
\* thread cache and dumpProfileResults, a thread is inside a structural access
\* to times (counters) only while it holds lockTimes (lockCounters), so no two
\* threads are inside such an access to the same table at the same time.
C15_AccessUnderMutex ==
    /\ \A t \in Threads : InTimes(t) => lockTimes = t
    /\ \A t \in Threads : InCounters(t) => lockCounters = t
    /\ \A t, u \in Threads : t # u =>
          /\ ~(InTimes(t) /\ InTimes(u))
          /\ ~(InCounters(t) /\ InCounters(u))

====
